---- MODULE Spec2Model ----
(***************************************************************************)
(* A model of webpack-sentry-plugin (src/src/index.js): the SentryPlugin   *)
(* class, its after-emit handler with the promise chain                    *)
(* createRelease -> getReleaseArtifacts -> deleteArtifacts -> uploadFiles  *)
(* -> cb, the error handler, option validation and file selection.         *)
(*                                                                         *)
(* JavaScript values are records [t, s, a]: t is the typeof-like tag, s    *)
(* the text of a string / number / function name, a the elements of an     *)
(* array.  Requests of request-promise are records kept in `requests`;     *)
(* the remote service answers each pending request with success or with a  *)
(* StatusCodeError.                                                        *)
(***************************************************************************)
EXTENDS Integers, Sequences, FiniteSets

\* ------------------------------------------------------------------ bounds

MaxAssets == 2
MaxArtifacts == 1
MaxKeys == 3

\* ------------------------------------------------------- JavaScript values

Undefined == [t |-> "undefined", s |-> "", a |-> <<>>]
Str(x) == [t |-> "string", s |-> x, a |-> <<>>]
Num(x) == [t |-> "number", s |-> x, a |-> <<>>]
Arr(x) == [t |-> "array", s |-> "", a |-> x]
Fn(x) == [t |-> "function", s |-> x, a |-> <<>>]
Obj(version, projects) == [t |-> "object", s |-> version, a |-> projects]

\* JavaScript truthiness (the tests `!x`, `x || y`, `if (x)`).
Truthy(v) ==
  CASE v.t = "undefined" -> FALSE
    [] v.t = "string" -> v.s # ""
    [] v.t = "number" -> v.s # "0"
    [] OTHER -> TRUE

\* x || y
OrElse(x, y) == IF Truthy(x) THEN x ELSE y

\* `${v}` inside a template literal.
TemplateString(v) ==
  CASE v.t = "undefined" -> "undefined"
    [] v.t = "array" -> IF Len(v.a) = 1 THEN v.a[1] ELSE "<array>"
    [] v.t = "object" -> "[object Object]"
    [] OTHER -> v.s

\* A regular expression of the form /s1$|s2$|.../ with or without the g flag;
\* lastIndex is the RegExp object's own state.
RegExp(sfx, g) == [t |-> "regexp", suffixes |-> sfx, global |-> g, lastIndex |-> 0]
NoRegExp == [t |-> "undefined", suffixes |-> {}, global |-> FALSE, lastIndex |-> 0]

\* ---------------------------------------------------------------- constants

BASE_SENTRY_URL == "https://sentry.io/api/0"
DEFAULT_INCLUDE == RegExp({".js", ".map"}, FALSE)
DEFAULT_DELETE_REGEX == RegExp({".map"}, FALSE)
DEFAULT_BODY_TRANSFORM == Fn("DEFAULT_BODY_TRANSFORM")
DEFAULT_OVERWRITE == FALSE

\* ------------------------------------------------------- names and suffixes

AssetNames == <<"app.js", "app.js.map", "app.css", "a.js">>
NameSet == {AssetNames[i] : i \in 1..Len(AssetNames)}

\* The number of characters of a name and of a suffix literal.
NameLength(name) ==
  CASE name = "app.js" -> 6
    [] name = "app.js.map" -> 10
    [] name = "app.css" -> 7
    [] name = "a.js" -> 4

SuffixLength(sfx) ==
  CASE sfx = ".js" -> 3
    [] sfx = ".map" -> 4
    [] sfx = ".css" -> 4

EndsWith(name, sfx) ==
  CASE sfx = ".js" -> name \in {"app.js", "a.js"}
    [] sfx = ".map" -> name = "app.js.map"
    [] sfx = ".css" -> name = "app.css"

\* RegExp.prototype.test: the result and the RegExp object afterwards.  Without
\* the g flag the search starts at 0 and lastIndex is left alone; with it the
\* search starts at lastIndex, a match leaves lastIndex at the end of the match
\* (the end of the name, the pattern being anchored) and a failure resets it.
RegExpTest(re, name) ==
  LET from == IF re.global THEN re.lastIndex ELSE 0
      found == \E sfx \in re.suffixes :
                  /\ EndsWith(name, sfx)
                  /\ NameLength(name) - SuffixLength(sfx) >= from
  IN [result |-> found,
      re |-> IF re.global
               THEN [re EXCEPT !.lastIndex = IF found THEN NameLength(name) ELSE 0]
               ELSE re]

\* ------------------------------------------------------------------ errors

\* What handleErrors receives: an Error object (name, message, statusCode).
NoError == [name |-> "null", message |-> "", statusCode |-> Undefined]
Error(msg) == [name |-> "Error", message |-> msg, statusCode |-> Undefined]
\* request-promise rejects a non-2xx response with a StatusCodeError.
StatusCodeError(code) ==
  [name |-> "StatusCodeError", message |-> code, statusCode |-> Num(code)]
\* JSON.parse of a response that is not JSON.
SyntaxError == [name |-> "SyntaxError", message |-> "Unexpected token", statusCode |-> Undefined]
\* What a throwing completion callback throws.
CallbackError == Error("callback threw")

StatusCodes == {"409", "500"}

\* ------------------------------------------------------------- constructor

StripProjects(url) ==
  CASE url = "https://sentry.example/api/0/projects" -> "https://sentry.example/api/0"
    [] OTHER -> url

HasProjectsSuffix(url) == StripProjects(url) # url

constructor(o) ==
  [baseSentryURL |->
     IF Truthy(o.baseSentryURL)
       THEN IF HasProjectsSuffix(o.baseSentryURL.s)
              THEN StripProjects(o.baseSentryURL.s)
              ELSE o.baseSentryURL.s
       ELSE BASE_SENTRY_URL,
   organizationSlug |-> OrElse(o.organization, o.organisation),
   projectSlug |-> IF o.project.t = "string" THEN Arr(<<o.project.s>>) ELSE o.project,
   apiKey |-> o.apiKey,
   releaseBody |-> OrElse(o.releaseBody, DEFAULT_BODY_TRANSFORM),
   releaseVersion |-> o.release,
   include |-> IF o.include.t # "undefined" THEN o.include ELSE DEFAULT_INCLUDE,
   exclude |-> o.exclude,
   filenameTransform |-> OrElse(o.filenameTransform, Fn("DEFAULT_TRANSFORM")),
   suppressErrors |-> o.suppressErrors,
   suppressConflictError |-> o.suppressConflictError,
   shouldOverwrite |-> (o.shouldOverwrite \/ DEFAULT_OVERWRITE),
   deleteAfterCompile |-> o.deleteAfterCompile,
   deleteRegex |-> IF o.deleteRegex.t # "undefined" THEN o.deleteRegex
                                                   ELSE DEFAULT_DELETE_REGEX]

\* ---------------------------------------------------------------- validation

ensureRequiredOptions(p) ==
  IF ~Truthy(p.organizationSlug) THEN Error("Must provide organization")
  ELSE IF ~Truthy(p.projectSlug) THEN Error("Must provide project")
  ELSE IF ~Truthy(p.apiKey) THEN Error("Must provide api key")
  ELSE IF ~Truthy(p.releaseVersion) THEN Error("Must provide release version")
  ELSE NoError

\* ------------------------------------------------------------ file selection

\* A selection that forgets the exclude pattern.
isIncludeOnly(inc, exc, filename) ==
  LET i == IF inc.t # "undefined" THEN RegExpTest(inc, filename)
                                  ELSE [result |-> TRUE, re |-> inc]
  IN [result |-> i.result, include |-> i.re, exclude |-> exc]

isIncludeOrExclude(inc, exc, filename) ==
  LET i == IF inc.t # "undefined" THEN RegExpTest(inc, filename)
                                  ELSE [result |-> TRUE, re |-> inc]
      e == IF exc.t # "undefined" THEN RegExpTest(exc, filename)
                                  ELSE [result |-> FALSE, re |-> exc]
  IN [result |-> i.result /\ ~e.result, include |-> i.re, exclude |-> e.re]

RECURSIVE getFilesOf(_, _, _)
getFilesOf(assets, inc, exc) ==
  IF assets = <<>> THEN [files |-> <<>>, include |-> inc, exclude |-> exc]
  ELSE LET t == isIncludeOrExclude(inc, exc, Head(assets).name)
           rest == getFilesOf(Tail(assets), t.include, t.exclude)
           file == [name |-> Head(assets).name, path |-> Head(assets).existsAt]
       IN [rest EXCEPT !.files = IF t.result THEN <<file>> \o @ ELSE @]

\* The selected files, and the two RegExp objects as the tests leave them.
getFiles(p, comp) == getFilesOf(comp.assets, p.include, p.exclude)

\* ------------------------------------------------------------ error handler

\* `Sentry Plugin: ${err}`
ErrorMsg(err) == <<"Sentry Plugin: ", err.name, err.message>>

\* A handler that takes suppressConflictError to cover every failure.
SuppressedWhateverTheStatus(p, err) == p.suppressErrors \/ p.suppressConflictError

Suppressed(p, err) ==
  p.suppressErrors \/ (p.suppressConflictError /\ err.statusCode = Num("409"))

\* handleErrors without its final cb(): the compilation after the push.
handleErrorsPush(p, err, comp) ==
  IF Suppressed(p, err)
    THEN [comp EXCEPT !.warnings = Append(@, ErrorMsg(err))]
    ELSE [comp EXCEPT !.errors = Append(@, ErrorMsg(err))]

\* ------------------------------------------------------- release resolution

\* options.release as a function of the build hash: hash => hash,
\* hash => '' and a function that throws.
ApplyRelease(fn, hash) ==
  CASE fn = "useHash" -> [threw |-> FALSE, value |-> Str(hash)]
    [] fn = "empty" -> [threw |-> FALSE, value |-> Str("")]
    [] fn = "throws" -> [threw |-> TRUE, value |-> Undefined]

\* this.releaseBody as a function of (version, projects): the default
\* (version, projects) => ({ version, projects }) and a function that throws.
ApplyBody(fn, version, projects) ==
  CASE fn = "DEFAULT_BODY_TRANSFORM" ->
         [threw |-> FALSE, value |-> Obj(TemplateString(version), projects.a)]
    [] fn = "throws" -> [threw |-> TRUE, value |-> Undefined]

\* ------------------------------------------------------------------ requests

NoFile == [name |-> <<>>, path |-> <<>>]

Request(kind, method, url, body, file) ==
  [kind |-> kind, method |-> method, url |-> url,
   bearer |-> "", body |-> body, file |-> file, state |-> "pending"]

\* URLs are sequences of path segments; a final "" is the trailing slash.
sentryReleaseUrl(p) ==
  <<p.baseSentryURL, "organizations", TemplateString(p.organizationSlug), "releases">>

createRelease(p) ==
  [Request("createRelease", "POST", sentryReleaseUrl(p) \o <<"">>,
           p.releaseBody, NoFile) EXCEPT !.bearer = TemplateString(p.apiKey)]

getReleaseArtifacts(p, version) ==
  [Request("getReleaseArtifacts", "GET",
           sentryReleaseUrl(p) \o <<TemplateString(version), "files", "">>,
           Undefined, NoFile) EXCEPT !.bearer = TemplateString(p.apiKey)]

deleteArtifact(p, id) ==
  [Request("deleteArtifact", "DELETE",
           sentryReleaseUrl(p) \o
             <<TemplateString(p.releaseVersion), "files", TemplateString(id), "">>,
           Undefined, NoFile) EXCEPT !.bearer = TemplateString(p.apiKey)]

\* DEFAULT_TRANSFORM: filename => `~/${filename}`
DEFAULT_TRANSFORM(filename) == <<"~/", filename>>

\* this.filenameTransform(name): the default, and a transform of the user's
\* (name => `~/static/${name}`).
ApplyTransform(fn, filename) ==
  CASE fn = "DEFAULT_TRANSFORM" -> DEFAULT_TRANSFORM(filename)
    [] fn = "static" -> <<"~/static/", filename>>

\* An upload that sends the asset's name as it is.
uploadFileUntransformed(p, file) ==
  [Request("uploadFile", "POST",
           sentryReleaseUrl(p) \o <<TemplateString(p.releaseVersion), "files", "">>,
           Undefined, [name |-> <<file.name>>, path |-> file.path])
     EXCEPT !.bearer = TemplateString(p.apiKey)]

uploadFile(p, file) ==
  [Request("uploadFile", "POST",
           sentryReleaseUrl(p) \o <<TemplateString(p.releaseVersion), "files", "">>,
           Undefined, [name |-> ApplyTransform(p.filenameTransform.s, file.name),
                       path |-> file.path])
     EXCEPT !.bearer = TemplateString(p.apiKey)]

\* files.map(this.uploadFile.bind(this)): one request per file, in order.
uploadFiles(p, fs) == [i \in 1..Len(fs) |-> uploadFile(p, fs[i])]

\* An artifact of the listing: artifact.id is undefined when the object has no id.
Artifact(hasId, id) == [hasId |-> hasId, id |-> IF hasId THEN id ELSE Undefined]

\* resp.forEach(artifact => { if (artifact.id) this.deleteArtifact(artifact.id) })
RECURSIVE deleteEach(_, _)
deleteEach(p, artifacts) ==
  IF artifacts = <<>> THEN <<>>
  ELSE LET artifactID == Head(artifacts).id
       IN (IF Truthy(artifactID) THEN <<deleteArtifact(p, artifactID)>> ELSE <<>>)
            \o deleteEach(p, Tail(artifacts))

\* deleteArtifacts(response): the requests it issues (it returns nothing, and
\* throws when the response is not JSON).
deleteArtifacts(p, response) ==
  IF p.shouldOverwrite THEN deleteEach(p, response.artifacts) ELSE <<>>

deleteArtifactsThrows(p, response) == p.shouldOverwrite /\ ~response.valid

\* ----------------------------------------------------------- deleteFiles

\* Object.keys(assets).filter(name => this.deleteRegex.test(name)): the assets
\* kept and the RegExp object afterwards.
RECURSIVE deleteFilter(_, _)
deleteFilter(assets, re) ==
  IF assets = <<>> THEN [kept |-> <<>>, re |-> re]
  ELSE LET t == RegExpTest(re, Head(assets).name)
           rest == deleteFilter(Tail(assets), t.re)
       IN [kept |-> (IF t.result THEN <<Head(assets)>> ELSE <<>>) \o rest.kept,
           re |-> rest.re]

\* .forEach(name => fs.unlinkSync(assets[name].existsAt)): unlinkSync throws
\* when there is no file at the path, which ends the loop.
RECURSIVE unlinkEach(_, _)
unlinkEach(assets, onDisk) ==
  IF assets = <<>> THEN [disk |-> onDisk, unlinked |-> <<>>, threw |-> FALSE]
  ELSE LET existsAt == Head(assets).existsAt
       IN IF existsAt \notin onDisk
            THEN [disk |-> onDisk, unlinked |-> <<>>, threw |-> TRUE]
            ELSE LET rest == unlinkEach(Tail(assets), onDisk \ {existsAt})
                 IN [rest EXCEPT !.unlinked = <<existsAt>> \o @]

\* deleteFiles(stats), stats.compilation being comp.
deleteFiles(p, comp, onDisk) ==
  LET matching == deleteFilter(comp.assets, p.deleteRegex)
      u == unlinkEach(matching.kept, onDisk)
  IN [disk |-> u.disk, unlinked |-> u.unlinked, threw |-> u.threw,
      re |-> matching.re]

\* -------------------------------------------------------------------- state

VARIABLES
  options,              \* what the plugin was constructed with
  plugin,               \* the SentryPlugin instance (this.*)
  compilation,          \* the compilation of the current invocation
  files,                \* the files selected in the current invocation
  pc,                   \* where the current invocation's promise chain stands
  requests,             \* every request issued, with its state
  listed,               \* the listing deleteArtifacts parsed in this invocation
  callbacks,            \* the calls of cb in the current invocation
  handled,              \* the errors handleErrors received in this invocation
  resolutions,          \* applications of the release function in this invocation
  unhandledRejections,  \* the promises that rejected with nobody handling them
  disk,                 \* the existsAt paths of the compilation's assets with a file
  signal,               \* the done hook of the current build: not yet, returned, threw
  unlinked              \* the paths deleteFiles has unlinked in the current build

\* What the done hook writes besides the instance.
fsVars == <<disk, signal, unlinked>>

vars == <<options, plugin, compilation, files, pc, requests, listed,
          callbacks, handled, resolutions, unhandledRejections, fsVars>>

\* -------------------------------------------------------------------- inputs

Hashes == {"h1", "h2"}

\* The hashes a build can have.  compilation.hash is read by a release function
\* only, so without one a single hash stands for all.
BuildHashes == IF options.release.t = "function" THEN Hashes ELSE {"h1"}

Asset(name) == [name |-> name, existsAt |-> <<"dist", name>>]

\* compilation.assets in Object.keys order: the first n emitted assets, and a
\* build whose first asset is a stylesheet.
BuildAssets ==
  {[i \in 1..n |-> Asset(AssetNames[i])] : n \in 0..MaxAssets}
    \cup {<<Asset("app.css"), Asset("app.js")>>}

ArtifactKinds ==
  {Artifact(FALSE, Undefined), Artifact(TRUE, Str("a1")),
   Artifact(TRUE, Num("0")), Artifact(TRUE, Str(""))}

NoResponse == [valid |-> FALSE, artifacts |-> <<>>]

\* The body of a successful listing: not JSON, or a JSON array of artifacts.
Responses ==
  {NoResponse} \cup
  {[valid |-> TRUE, artifacts |-> a] :
     a \in UNION {[1..n -> ArtifactKinds] : n \in 0..MaxArtifacts}}

BaseOptions ==
  [baseSentryURL |-> Undefined, organization |-> Str("acme"),
   organisation |-> Undefined, project |-> Str("web"), apiKey |-> Str("k"),
   release |-> Str("v1"), releaseBody |-> Undefined,
   include |-> NoRegExp, exclude |-> NoRegExp, filenameTransform |-> Undefined,
   suppressErrors |-> FALSE, suppressConflictError |-> FALSE,
   shouldOverwrite |-> FALSE, deleteAfterCompile |-> FALSE,
   deleteRegex |-> NoRegExp]

ReleaseInputs ==
  {Undefined, Str(""), Str("v1"), Fn("useHash"), Fn("empty"), Fn("throws")}

\* Options that vary the required fields.
ValidationOptions ==
  {[BaseOptions EXCEPT !.organization = org[1], !.organisation = org[2],
                       !.project = prj, !.apiKey = key, !.release = rel] :
     org \in {<<Undefined, Undefined>>, <<Str("acme"), Undefined>>,
              <<Undefined, Str("acme-uk")>>},
     prj \in {Undefined, Str("web"), Arr(<<"web", "api">>)},
     key \in {Undefined, Str("k")}, rel \in ReleaseInputs}

\* Options that pass validation and vary the flow: the suppression flags and
\* overwrite mode, a release function, and a release body of the user's.
FlowOptions ==
  {[BaseOptions EXCEPT !.suppressErrors = se, !.suppressConflictError = sc,
                       !.shouldOverwrite = ow] : se \in BOOLEAN, sc \in BOOLEAN, ow \in BOOLEAN}
  \cup {[BaseOptions EXCEPT !.release = Fn("useHash"), !.shouldOverwrite = ow] :
          ow \in BOOLEAN}
  \cup {[BaseOptions EXCEPT !.release = rel, !.releaseBody = body] :
          rel \in {Str("v1"), Fn("useHash")},
          body \in {Fn("throws"), Obj("custom", <<"web">>)}}
  \cup {[BaseOptions EXCEPT !.filenameTransform = Fn("static"), !.project = prj] :
          prj \in {Str("web"), Arr(<<"web", "api">>)}}
  \cup {[BaseOptions EXCEPT !.deleteAfterCompile = TRUE, !.deleteRegex = re] :
          re \in {NoRegExp, RegExp({".js", ".map"}, FALSE),
                  RegExp({".js", ".map"}, TRUE)}}

UrlOptions ==
  {[BaseOptions EXCEPT !.baseSentryURL = url] :
     url \in {Str("https://sentry.example/api/0"),
              Str("https://sentry.example/api/0/projects")}}

NoCompilation == [hash |-> "", assets |-> <<>>, warnings |-> <<>>, errors |-> <<>>]

InitWith(o) ==
  /\ options = o
  /\ plugin = constructor(o)
  /\ compilation = NoCompilation
  /\ files = <<>>
  /\ pc = "idle"
  /\ requests = <<>>
  /\ listed = NoResponse
  /\ callbacks = <<>>
  /\ handled = <<>>
  /\ resolutions = 0
  /\ unhandledRejections = {}
  /\ disk = {}
  /\ signal = "none"
  /\ unlinked = <<>>

Init == \E o \in ValidationOptions \cup FlowOptions \cup UrlOptions : InitWith(o)

\* ------------------------------------------------------ the promise chain

\* The part of the state a handler of the chain writes.
Chain == [compilation |-> compilation, callbacks |-> callbacks,
          handled |-> handled, rejected |-> FALSE]

\* A handler that pushes the message and forgets the callback.
handleErrorsWithoutCallback(p, err, st, threw) ==
  [compilation |-> handleErrorsPush(p, err, st.compilation),
   callbacks |-> st.callbacks,
   handled |-> Append(st.handled, err),
   rejected |-> FALSE]

\* handleErrors(err, compilation, cb): push the message, then cb(); `threw`
\* says whether this call of cb throws.
handleErrors(p, err, st, threw) ==
  [compilation |-> handleErrorsPush(p, err, st.compilation),
   callbacks |-> Append(st.callbacks, [via |-> "handleErrors", threw |-> threw]),
   handled |-> Append(st.handled, err),
   rejected |-> threw]

\* .then(() => cb()).catch(err => this.handleErrors(err, compilation, cb))
\* once the stage before it has resolved.
thenCb(p, st, threw1, threw2) ==
  LET called == [st EXCEPT !.callbacks = Append(@, [via |-> "then", threw |-> threw1])]
  IN IF threw1 THEN handleErrors(p, CallbackError, called, threw2) ELSE called

\* The chain ends in state st.
Settled(st) ==
  /\ compilation' = st.compilation
  /\ callbacks' = st.callbacks
  /\ handled' = st.handled
  /\ unhandledRejections' =
       IF st.rejected THEN unhandledRejections \cup {"chain"} ELSE unhandledRejections
  /\ pc' = "done"

Settle(i, state) == [requests EXCEPT ![i].state = state]

Pending(i, kind) ==
  /\ i \in 1..Len(requests)
  /\ requests[i].kind = kind
  /\ requests[i].state = "pending"

\* The outcomes of .then(() => cb()).catch(...): whether cb throws in the
\* then, and, when it does, whether it throws again in handleErrors.
CallbackThrows == {<<FALSE, FALSE>>, <<TRUE, FALSE>>, <<TRUE, TRUE>>}

\* The bodies the listing can answer with; deleteArtifacts reads the body only
\* when shouldOverwrite is set.
ResponsesRead == IF plugin.shouldOverwrite THEN Responses ELSE {NoResponse}

\* The on-disk paths of assets.
Paths(assets) == {assets[i].existsAt : i \in 1..Len(assets)}

\* What the host has written when after-emit fires: every asset of the build,
\* or every asset but those left as they were since the build before, which
\* it does not write again.
Emitted(assets) == {Paths(assets), Paths(assets) \ Paths(compilation.assets)}

\* No request is in flight.
Quiescent == \A i \in 1..Len(requests) : requests[i].state # "pending"

\* ------------------------------------------------------------------- actions

\* compiler.plugin('after-emit', (compilation, cb) => { ... }): the synchronous
\* part of the handler, up to the createRelease request.  The host starts a
\* build, any number of times, once the done hook of the one before has
\* returned; the builds explored are far enough apart for the requests of the
\* one before to have settled, and `requests` holds the requests of the current
\* invocation.  The host has emitted the assets when after-emit fires.
AfterEmit ==
  /\ pc \in {"idle", "done"}
  /\ pc = "done" => signal = "done"
  /\ \A i \in 1..Len(callbacks) : ~callbacks[i].threw
  /\ Quiescent
  /\ \E hash \in BuildHashes, assets \in BuildAssets :
       /\ listed' = NoResponse
       /\ LET comp == [hash |-> hash, assets |-> assets, warnings |-> <<>>, errors |-> <<>>]
              errors == ensureRequiredOptions(plugin)
              sel == getFiles(plugin, comp)
              p1 == [plugin EXCEPT !.include = sel.include, !.exclude = sel.exclude]
              isFn == p1.releaseVersion.t = "function"
              ver == IF isFn THEN ApplyRelease(p1.releaseVersion.s, hash)
                             ELSE [threw |-> FALSE, value |-> p1.releaseVersion]
              p2 == [p1 EXCEPT !.releaseVersion = ver.value]
              body == IF p2.releaseBody.t = "function"
                        THEN ApplyBody(p2.releaseBody.s, p2.releaseVersion, p2.projectSlug)
                        ELSE [threw |-> FALSE, value |-> p2.releaseBody]
              p3 == [p2 EXCEPT !.releaseBody = body.value]
          IN IF errors # NoError
               THEN /\ \E threw \in BOOLEAN :
                         LET st == handleErrors(plugin, errors,
                                                [Chain EXCEPT !.compilation = comp,
                                                              !.callbacks = <<>>,
                                                              !.handled = <<>>], threw)
                         IN /\ compilation' = st.compilation
                            /\ callbacks' = st.callbacks
                            /\ handled' = st.handled
                            /\ pc' = IF threw THEN "thrown" ELSE "done"
                    /\ files' = <<>>
                    /\ resolutions' = 0
                    /\ requests' = <<>>
                    /\ UNCHANGED plugin
               ELSE /\ compilation' = comp
                    /\ callbacks' = <<>>
                    /\ handled' = <<>>
                    /\ files' = sel.files
                    /\ resolutions' = IF isFn THEN 1 ELSE 0
                    /\ IF ver.threw
                         THEN plugin' = p1 /\ pc' = "thrown" /\ requests' = <<>>
                         ELSE IF body.threw
                           THEN plugin' = p2 /\ pc' = "thrown" /\ requests' = <<>>
                           ELSE /\ plugin' = p3
                                /\ pc' = "createRelease"
                                /\ requests' = <<createRelease(p3)>>
       /\ \E written \in Emitted(assets) :
            disk' = written \cup (disk \cap Paths(assets))
       /\ signal' = "none"
       /\ unlinked' = <<>>
       /\ UNCHANGED <<options, unhandledRejections>>

\* createRelease() resolves: .then(() => this.getReleaseArtifacts(this.releaseVersion))
CreateReleaseSucceeds ==
  \E i \in 1..Len(requests) :
  /\ Pending(i, "createRelease")
  /\ requests' = Append(Settle(i, "ok"),
                        getReleaseArtifacts(plugin, plugin.releaseVersion))
  /\ pc' = "getReleaseArtifacts"
  /\ UNCHANGED <<fsVars, options, plugin, compilation, files, listed, callbacks,
                 handled, resolutions, unhandledRejections>>

\* A chain that goes on to the listing when createRelease() rejects.
CreateReleaseFailureSwallowed ==
  \E i \in 1..Len(requests) :
  /\ Pending(i, "createRelease")
  /\ requests' = Append(Settle(i, "failed"),
                        getReleaseArtifacts(plugin, plugin.releaseVersion))
  /\ pc' = "getReleaseArtifacts"
  /\ UNCHANGED <<fsVars, options, plugin, compilation, files, listed, callbacks,
                 handled, resolutions, unhandledRejections>>

\* createRelease() rejects: .catch(err => this.handleErrors(err, compilation, cb))
CreateReleaseFails ==
  \E i \in 1..Len(requests) :
  /\ Pending(i, "createRelease")
  /\ requests' = Settle(i, "failed")
  /\ \E code \in StatusCodes, threw \in BOOLEAN :
       Settled(handleErrors(plugin, StatusCodeError(code), Chain, threw))
  /\ UNCHANGED <<fsVars, options, plugin, files, listed, resolutions>>

\* getReleaseArtifacts() resolves with `response`:
\*   .then(resp => this.deleteArtifacts(resp)).then(() => this.uploadFiles(files))
\* and, when there is nothing to upload, .then(() => cb()) at once.
GetReleaseArtifactsSucceeds ==
  \E i \in 1..Len(requests) :
  /\ Pending(i, "getReleaseArtifacts")
  /\ \E response \in ResponsesRead :
       IF deleteArtifactsThrows(plugin, response)
         THEN /\ requests' = Settle(i, "ok")
              /\ listed' = listed
              /\ \E threw \in BOOLEAN :
                   Settled(handleErrors(plugin, SyntaxError, Chain, threw))
         ELSE /\ requests' = Settle(i, "ok") \o deleteArtifacts(plugin, response)
                               \o uploadFiles(plugin, files)
              /\ listed' = IF plugin.shouldOverwrite THEN response ELSE listed
              /\ IF files = <<>>
                   THEN \E threw \in CallbackThrows :
                          Settled(thenCb(plugin, Chain, threw[1], threw[2]))
                   ELSE /\ pc' = "uploadFiles"
                        /\ UNCHANGED <<compilation, callbacks, handled,
                                       unhandledRejections>>
  /\ UNCHANGED <<fsVars, options, plugin, files, resolutions>>

GetReleaseArtifactsFails ==
  \E i \in 1..Len(requests) :
  /\ Pending(i, "getReleaseArtifacts")
  /\ requests' = Settle(i, "failed")
  /\ \E code \in StatusCodes, threw \in BOOLEAN :
       Settled(handleErrors(plugin, StatusCodeError(code), Chain, threw))
  /\ UNCHANGED <<fsVars, options, plugin, files, listed, resolutions>>

\* The chain of the current invocation still waits for Promise.all.
Waiting == pc = "uploadFiles"

AllUploaded(reqs) ==
  \A j \in 1..Len(reqs) :
    reqs[j].kind = "uploadFile" => reqs[j].state = "ok"

\* One upload resolves; Promise.all resolves with the last one: .then(() => cb())
UploadFileSucceeds ==
  \E i \in 1..Len(requests) :
  /\ Pending(i, "uploadFile")
  /\ requests' = Settle(i, "ok")
  /\ IF Waiting /\ AllUploaded(requests')
       THEN \E threw \in CallbackThrows :
              Settled(thenCb(plugin, Chain, threw[1], threw[2]))
       ELSE UNCHANGED <<compilation, callbacks, handled, unhandledRejections, pc>>
  /\ UNCHANGED <<fsVars, options, plugin, files, listed, resolutions>>

\* One upload rejects; Promise.all rejects with the first rejection.
UploadFileFails ==
  \E i \in 1..Len(requests) :
  /\ Pending(i, "uploadFile")
  /\ requests' = Settle(i, "failed")
  /\ IF Waiting
       THEN \E code \in StatusCodes, threw \in BOOLEAN :
              Settled(handleErrors(plugin, StatusCodeError(code), Chain, threw))
       ELSE UNCHANGED <<compilation, callbacks, handled, unhandledRejections, pc>>
  /\ UNCHANGED <<fsVars, options, plugin, files, listed, resolutions>>

\* The promise deleteArtifact returned is dropped by deleteArtifacts.
DeleteArtifactSucceeds ==
  \E i \in 1..Len(requests) :
  /\ Pending(i, "deleteArtifact")
  /\ requests' = Settle(i, "ok")
  /\ UNCHANGED <<fsVars, options, plugin, compilation, files, pc, listed, callbacks,
                 handled, resolutions, unhandledRejections>>

DeleteArtifactFails ==
  \E i \in 1..Len(requests) :
  /\ Pending(i, "deleteArtifact")
  /\ requests' = Settle(i, "failed")
  /\ unhandledRejections' = unhandledRejections \cup {"deleteArtifact"}
  /\ UNCHANGED <<fsVars, options, plugin, compilation, files, pc, listed, callbacks,
                 handled, resolutions>>

\* compiler.plugin('done', stats => { ... }): the host fires done for the
\* build once the callback of after-emit has returned.
Done ==
  /\ pc = "done"
  /\ signal = "none"
  /\ \A i \in 1..Len(callbacks) : ~callbacks[i].threw
  /\ IF plugin.deleteAfterCompile
       THEN LET r == deleteFiles(plugin, compilation, disk)
            IN /\ disk' = r.disk
               /\ unlinked' = r.unlinked
               /\ signal' = IF r.threw THEN "threw" ELSE "done"
               /\ plugin' = [plugin EXCEPT !.deleteRegex = r.re]
       ELSE /\ signal' = "done"
            /\ UNCHANGED <<disk, unlinked, plugin>>
  /\ UNCHANGED <<options, compilation, files, pc, requests, listed, callbacks,
                 handled, resolutions, unhandledRejections>>

Next ==
  \/ AfterEmit
  \/ Done
  \/ CreateReleaseSucceeds
  \/ CreateReleaseFails
  \/ GetReleaseArtifactsSucceeds
  \/ GetReleaseArtifactsFails
  \/ UploadFileSucceeds
  \/ UploadFileFails
  \/ DeleteArtifactSucceeds
  \/ DeleteArtifactFails

Spec == Init /\ [][Next]_vars

\* ------------------------------------------- file selection on its own

\* Include and exclude patterns a configuration can carry.
PatternInputs ==
  {NoRegExp} \cup
  {RegExp(sfx, g) : sfx \in {{".js"}, {".map"}, {".js", ".map"}, {".css"}},
                    g \in BOOLEAN}

FileOptions ==
  {[BaseOptions EXCEPT !.include = inc, !.exclude = exc] :
     inc \in PatternInputs, exc \in PatternInputs}

\* Asset mappings of up to MaxKeys keys, in every Object.keys order.
AssetInputs ==
  {[i \in 1..Len(ks) |-> Asset(ks[i])] :
     ks \in {k \in UNION {[1..n -> NameSet] : n \in 0..MaxKeys} :
               \A i, j \in 1..Len(k) : i # j => k[i] # k[j]}}

InitFiles == \E o \in FileOptions : InitWith(o)

\* const files = this.getFiles(compilation), for the compilation of one build.
SelectFiles ==
  \E hash \in {"h1"}, assets \in AssetInputs :
  /\ LET comp == [hash |-> hash, assets |-> assets, warnings |-> <<>>, errors |-> <<>>]
         sel == getFiles(plugin, comp)
     IN /\ compilation' = comp
        /\ files' = sel.files
        /\ plugin' = [plugin EXCEPT !.include = sel.include, !.exclude = sel.exclude]
  /\ UNCHANGED <<fsVars, options, pc, requests, listed, callbacks, handled, resolutions,
                 unhandledRejections>>

NextFiles == SelectFiles

SpecFiles == InitFiles /\ [][NextFiles]_vars

\* ------------------------------------------------------------------- claims

\* An invocation has started.
Started == compilation.hash # ""

\* The invocation is over: its chain has settled, or its handler threw.
InvocationOver == pc \in {"done", "thrown"}

Messages == compilation.warnings \o compilation.errors

RequestsOf(kind) == SelectSeq(requests, LAMBDA r : r.kind = kind)

\* C1: every after-emit invocation ends with the completion callback invoked
\* exactly once, whatever the outcome: never twice, and not zero times once
\* the invocation is over.
C1_CallbackExactlyOnce ==
  /\ Len(callbacks) <= 1
  /\ InvocationOver => Len(callbacks) = 1

\* The version the configured release stands for in a build with this hash.
ResolvedRelease(o, hash) ==
  IF o.release.t = "function" THEN ApplyRelease(o.release.s, hash).value
                              ELSE o.release

\* The first missing required field, in the order organization, project,
\* api key, release version ("" when none is missing).
FirstMissing(o, hash) ==
  IF ~Truthy(o.organization) /\ ~Truthy(o.organisation) THEN "Must provide organization"
  ELSE IF ~Truthy(o.project) THEN "Must provide project"
  ELSE IF ~Truthy(o.apiKey) THEN "Must provide api key"
  ELSE IF ~Truthy(ResolvedRelease(o, hash)) THEN "Must provide release version"
  ELSE ""

ReleaseResolves(o, hash) ==
  o.release.t = "function" => ~ApplyRelease(o.release.s, hash).threw

\* C2: when a required field (organization, project, api key, resolved release
\* version) is missing, the invocation reports exactly one error, naming the
\* first missing field, and issues no request.
C2_MissingFieldReportedWithoutRequest ==
  (/\ Started
   /\ ReleaseResolves(options, compilation.hash)
   /\ FirstMissing(options, compilation.hash) # "")
  => /\ requests = <<>>
     /\ Messages = <<ErrorMsg(Error(FirstMissing(options, compilation.hash)))>>

\* C3: without overwrite mode no listing and no deletion request is made.
C3_NoListingWithoutOverwrite ==
  ~options.shouldOverwrite =>
    \A i \in 1..Len(requests) :
      requests[i].kind \notin {"getReleaseArtifacts", "deleteArtifact"}

SomeRequest(kind, state) ==
  \E i \in 1..Len(requests) : requests[i].kind = kind /\ requests[i].state = state

\* C4: in overwrite mode the stages are sequential: while a deletion request
\* of the invocation is in flight no upload request has been issued and the
\* callback has not been invoked.
C4_DeletionsSettleBeforeUploads ==
  SomeRequest("deleteArtifact", "pending") =>
    /\ RequestsOf("uploadFile") = <<>>
    /\ callbacks = <<>>

\* C5: the callback is never invoked while an upload request of the invocation
\* is in flight, and a failed upload fails the stage: the failure is reported
\* and the success path is not taken.
C5_CallbackAfterAllUploadsSettle ==
  /\ callbacks # <<>> => ~SomeRequest("uploadFile", "pending")
  /\ (SomeRequest("uploadFile", "failed") /\ InvocationOver) =>
       /\ handled # <<>>
       /\ \A j \in 1..Len(callbacks) : callbacks[j].via # "then"

\* C6: every failed request of the invocation is routed through handleErrors (a
\* message is appended to the warnings or the errors), and no rejection is left
\* unhandled.
C6_EveryFailureHandled ==
  /\ (\E i \in 1..Len(requests) : requests[i].state = "failed") =>
       (handled # <<>> /\ Messages # <<>>)
  /\ "deleteArtifact" \notin unhandledRejections

\* The artifacts of a listing that carry an id field.
WithId(artifacts) == SelectSeq(artifacts, LAMBDA x : x.hasId)

\* C7: in overwrite mode, a listing of N objects of which M have an id field
\* is followed by exactly M deletion requests, one per id-bearing object, each
\* a DELETE of {releaseURL}/{version}/files/{id}/ for that object's id.
C7_OneDeletionPerIdBearingArtifact ==
  (options.shouldOverwrite /\ listed.valid) =>
    LET ids == WithId(listed.artifacts)
        dels == RequestsOf("deleteArtifact")
    IN /\ Len(dels) = Len(ids)
       /\ \A k \in 1..Len(dels) :
            /\ dels[k].method = "DELETE"
            /\ dels[k].url = <<plugin.baseSentryURL, "organizations", "acme", "releases",
                               plugin.releaseVersion.s, "files", ids[k].id.s, "">>

\* Whether the claim has the failure go to the warnings.
ToWarnings(o, err) ==
  o.suppressErrors \/ (o.suppressConflictError /\ err.statusCode.s = "409")

\* C8: every failure handleErrors receives appends exactly one message, with
\* the prefix 'Sentry Plugin: ', to exactly one collector: the warnings iff
\* suppressErrors is set or suppressConflictError is set and the failure has
\* status code 409, the errors otherwise; and the callback is then called.
C8_OneMessagePerFailure ==
  LET warned == SelectSeq(handled, LAMBDA e : ToWarnings(options, e))
      failed == SelectSeq(handled, LAMBDA e : ~ToWarnings(options, e))
      viaHandler == SelectSeq(callbacks, LAMBDA c : c.via = "handleErrors")
  IN /\ compilation.warnings =
          [k \in 1..Len(warned) |-> <<"Sentry Plugin: ", warned[k].name, warned[k].message>>]
     /\ compilation.errors =
          [k \in 1..Len(failed) |-> <<"Sentry Plugin: ", failed[k].name, failed[k].message>>]
     /\ Len(viaHandler) = Len(handled)

\* C8's case: a 409 from release creation with suppressConflictError (and not
\* suppressErrors) has become a warning, no error, and the callback was called.
C8_Witness ==
  /\ options.suppressConflictError /\ ~options.suppressErrors
  /\ SomeRequest("createRelease", "failed")
  /\ handled = <<StatusCodeError("409")>>
  /\ Len(compilation.warnings) = 1 /\ compilation.errors = <<>>
  /\ Len(callbacks) = 1

\* C9: with release a function of the build hash, every invocation creates the
\* release and uploads under the version the function gives for that
\* invocation's hash, and applies the function once.
C9_VersionResolvedPerBuild ==
  (/\ options.release.t = "function"
   /\ options.releaseBody.t = "undefined"
   /\ requests # <<>>)
  => LET version == ApplyRelease(options.release.s, compilation.hash).value.s
     IN /\ resolutions = 1
        /\ \A i \in 1..Len(requests) :
             /\ requests[i].kind = "createRelease" => requests[i].body.s = version
             /\ requests[i].kind = "uploadFile" => requests[i].url[5] = version

\* A name matches a pattern (a stateless search).
Matches(re, name) == \E sfx \in re.suffixes : EndsWith(name, sfx)

NotExcluded(o, name) == o.exclude.t = "undefined" \/ ~Matches(o.exclude, name)

\* The {name, path} pairs of the assets `Keep` keeps, in the order of the mapping.
Kept(assets, Keep(_)) ==
  LET kept == SelectSeq(assets, Keep)
  IN [k \in 1..Len(kept) |-> [name |-> kept[k].name, path |-> kept[k].existsAt]]

\* C10, as stated: getFiles returns exactly the assets whose name matches the
\* include pattern (all of them when no include pattern is set) and does not
\* match the exclude pattern, as {name, path = existsAt}, in the order of the
\* asset mapping.
C10_AllSelectedWithoutInclude ==
  Started =>
    files = Kept(compilation.assets,
                 LAMBDA x : /\ (options.include.t = "undefined"
                                  \/ Matches(options.include, x.name))
                            /\ NotExcluded(options, x.name))

\* The include test of a configuration: its pattern, or DEFAULT_INCLUDE when
\* no include pattern is configured.
Included(o, name) ==
  IF o.include.t = "undefined" THEN Matches(DEFAULT_INCLUDE, name)
                               ELSE Matches(o.include, name)

\* C10, amended: getFiles returns assets of the mapping as {name, path =
\* existsAt}, in the order of the mapping and without duplicates, each of them
\* matching the include pattern (the default /\.js$|\.map$/ when no include
\* pattern is configured); when neither pattern carries the g flag, it returns
\* exactly the assets that match the include pattern and do not match the
\* exclude pattern.
C10_SelectedFiles ==
  Started =>
    /\ files = Kept(compilation.assets,
                    LAMBDA x : \E k \in 1..Len(files) : files[k].name = x.name)
    /\ \A k \in 1..Len(files) : Included(options, files[k].name)
    /\ (~options.include.global /\ ~options.exclude.global) =>
         files = Kept(compilation.assets,
                      LAMBDA x : Included(options, x.name) /\ NotExcluded(options, x.name))

\* C10's case: no include pattern, an exclude pattern, three assets of which
\* one is selected.
C10_Witness ==
  /\ Started
  /\ options.include.t = "undefined"
  /\ options.exclude.t = "regexp" /\ ~options.exclude.global
  /\ Len(compilation.assets) = 3
  /\ Len(files) = 1

\* The invocation has come to the upload stage: the release was created, the
\* listing answered and deleteArtifacts returned.
UploadStage ==
  /\ SomeRequest("getReleaseArtifacts", "ok")
  /\ \A k \in 1..Len(handled) : handled[k] # SyntaxError

\* The name the claim has a file uploaded under.
TransformedName(o, name) ==
  IF o.filenameTransform.t = "undefined" THEN <<"~/", name>>
                                         ELSE ApplyTransform(o.filenameTransform.s, name)

\* The project slugs as a sequence, a single string coerced to one element.
ProjectList(o) == IF o.project.t = "string" THEN <<o.project.s>> ELSE o.project.a

\* C11: once the stages before it have succeeded, exactly one upload request
\* is issued per selected file, none for another asset and none twice, each a
\* POST to {releaseURL}/{version}/files/ with name = filenameTransform(asset
\* name) and the file at the asset's path; and with the default release body
\* the release is created with {version, projects}, version being the
\* resolved version the instance holds and projects the sequence of slugs.
C11_OneUploadPerSelectedFile ==
  LET version == plugin.releaseVersion.s
      selected == Kept(compilation.assets,
                       LAMBDA x : Included(options, x.name) /\ NotExcluded(options, x.name))
      uploads == RequestsOf("uploadFile")
      creates == RequestsOf("createRelease")
  IN /\ UploadStage =>
          /\ Len(uploads) = Len(selected)
          /\ \A k \in 1..Len(uploads) :
               /\ uploads[k].method = "POST"
               /\ uploads[k].url = <<plugin.baseSentryURL, "organizations",
                                     plugin.organizationSlug.s, "releases",
                                     version, "files", "">>
               /\ uploads[k].file = [name |-> TransformedName(options, selected[k].name),
                                     path |-> selected[k].path]
     /\ ~UploadStage => uploads = <<>>
     /\ (options.releaseBody.t = "undefined" /\ creates # <<>>) =>
          /\ Len(creates) = 1
          /\ creates[1].body = Obj(version, ProjectList(options))

\* C11's case: of two assets one is selected and uploaded, under a transform
\* of the user's, the release created for a single project string.
C11_Witness ==
  /\ pc = "done" /\ callbacks = <<[via |-> "then", threw |-> FALSE]>>
  /\ options.filenameTransform.t = "function"
  /\ options.project.t = "string"
  /\ Len(compilation.assets) = 2
  /\ Len(RequestsOf("uploadFile")) = 1
  /\ \A i \in 1..Len(requests) : requests[i].state = "ok"

StageFailed(kind) ==
  /\ SomeRequest(kind, "failed")
  /\ RequestsOf("uploadFile") = <<>>
  /\ \E k \in 1..Len(handled) : handled[k].name = "StatusCodeError"
  /\ Messages # <<>>

\* C13: the stages form a linear chain: the create-release request is the
\* first request of an invocation and is issued once; a listing, deletion or
\* upload request is issued only after release creation has succeeded, an
\* upload only after the listing has succeeded; when release creation or the
\* listing fails, no file is uploaded and the failure goes to handleErrors.
C13_LinearChain ==
  /\ requests # <<>> =>
       /\ requests[1].kind = "createRelease"
       /\ Len(RequestsOf("createRelease")) = 1
  /\ (\E i \in 1..Len(requests) : requests[i].kind # "createRelease") =>
       SomeRequest("createRelease", "ok")
  /\ RequestsOf("uploadFile") # <<>> => SomeRequest("getReleaseArtifacts", "ok")
  /\ SomeRequest("createRelease", "failed") => StageFailed("createRelease")
  /\ SomeRequest("getReleaseArtifacts", "failed") => StageFailed("getReleaseArtifacts")

\* C13's case: with files to upload, release creation answers 409 under
\* suppressConflictError: nothing more is requested, and the failure was handled.
C13_Witness ==
  /\ options.suppressConflictError
  /\ Len(files) = 2
  /\ Len(requests) = 1 /\ requests[1].state = "failed"
  /\ handled = <<StatusCodeError("409")>>
  /\ pc = "done"

\* C15: an invocation that fails validation leaves the configuration of the
\* instance as it was (releaseVersion and releaseBody are not resolved, the
\* patterns are not used), selects no asset and issues no request; it
\* appends the one message of the validation error to one collector and
\* calls the callback once.
C15_FailedValidationChangesNothing ==
  [][(AfterEmit /\ ensureRequiredOptions(plugin) # NoError) =>
       /\ plugin' = plugin
       /\ resolutions' = 0
       /\ files' = <<>>
       /\ requests' = <<>>
       /\ handled' = <<ensureRequiredOptions(plugin)>>
       /\ compilation'.warnings \o compilation'.errors =
            <<ErrorMsg(ensureRequiredOptions(plugin))>>
       /\ Len(callbacks') = 1
       /\ unhandledRejections' = unhandledRejections]_vars

\* C15's case: validation has failed for a missing api key, and the release
\* of the instance is still the function it was configured with.
C15_Witness ==
  /\ Started
  /\ handled = <<Error("Must provide api key")>>
  /\ options.release.t = "function"
  /\ plugin.releaseVersion = options.release
  /\ Len(callbacks) = 1

\* The deletion pattern of a configuration: its deleteRegex, or the default.
DeletionPattern(o) ==
  IF o.deleteRegex.t = "undefined" THEN DEFAULT_DELETE_REGEX ELSE o.deleteRegex

\* C12: once the done hook has run with deleteAfterCompile set, the file of
\* every asset whose name matches the deletion pattern is gone and the file of
\* every other asset is in place; with deleteAfterCompile unset the done hook
\* removes no file; and the after-emit hook unlinks nothing.
C12_CleanupRemovesMatchingOnly ==
  /\ signal # "none" =>
       \A i \in 1..Len(compilation.assets) :
         LET asset == compilation.assets[i]
         IN IF options.deleteAfterCompile /\ Matches(DeletionPattern(options), asset.name)
              THEN asset.existsAt \notin disk
              ELSE asset.existsAt \in disk
  /\ ~options.deleteAfterCompile => unlinked = <<>>
  /\ signal = "none" => unlinked = <<>>

\* C14: no upload request is in flight for a file deleteFiles has unlinked.
C14_NoUnlinkDuringUpload ==
  \A i \in 1..Len(requests) :
    (requests[i].kind = "uploadFile" /\ requests[i].state = "pending") =>
      \A k \in 1..Len(unlinked) : unlinked[k] # requests[i].file.path

====
